---------------------------- MODULE Spec2Model ----------------------------
(***************************************************************************)
(* Model of plugin/sublime_text/OpenGitRepoOnWebCommand.py: the Git        *)
(* command wrapper (process runner, repository detection, remote web URL   *)
(* resolution, remote URI normalisation) and the OpenGitRepoOnWebCommand   *)
(* window command that drives it.                                          *)
(*                                                                         *)
(* Python strings are modelled as sequences of one-character strings, so   *)
(* that slicing, splitting, joining and pattern matching are computed the  *)
(* way the code computes them.  Optional[str] is a string or None.         *)
(***************************************************************************)
EXTENDS Naturals, Sequences, FiniteSets

VARIABLES
    \* ---- filesystem and host editor (fixed by Init) ----
    gitAt,      \* the directory that holds a `.git` entry (when gitKind # "none")
    gitKind,    \* "none" | "dir" | "file": what that `.git` entry is
    linkTo,     \* the symlink /l: NoLink, LinkLoop (points at itself) or its target
    hostPath,   \* view.file_name(), else window.folders()[0], else ""
    \* ---- the handler being executed ----
    handler,    \* "none" | "is_enabled" | "detect" | "run"
    pc,         \* "idle" | "walk" | "revparse" | "geturl" | "done"
    path,       \* is_in_git_repo: local `path`
    visited,    \* is_in_git_repo: local `visited`
    reexamined, \* some directory had its `.git` entry tested a second time
    detected,   \* return value of is_in_git_repo / is_enabled ("unset" before)
    repoPath,   \* Git.repo_path of the handle built by create_git_object
    remoteArg,  \* the `remote` argument of run / get_remote_web_url
    spawned,    \* Git.run invocations of the current handler call, in order
    resolved,   \* return value of get_remote_web_url ("unset" before)
    raised,     \* exception that left the handler ("none" when none did)
    opened,     \* URL handed to open_url by the current handler call, or None
    errorShown, \* sublime.error_message was called by the current handler call
    everSpawned,\* some handler call on hostPath invoked the git executable
    everOpened, \* some handler call on hostPath opened a URL
    \* ---- remote URI normalisation, checked on its own ----
    uri,        \* argument of get_url_from_remote_uri
    web,        \* its return value
    web2,       \* the return value of applying it to `web`
    ustage      \* "off" | "input" | "once" | "twice"

cmdVars == <<gitAt, gitKind, linkTo, hostPath, handler, pc, path, visited,
             reexamined, detected, repoPath, remoteArg, spawned, resolved,
             raised, opened, errorShown, everSpawned, everOpened>>
urlVars == <<uri, web, web2, ustage>>
vars == <<cmdVars, urlVars>>

---------------------------------------------------------------------------
(* Bounds of the model *)

\* longest chain of directories below the root in the modelled filesystem
MaxDepth == 2
\* most `:port`-like segments inside the host part of a generated URI
MaxHostColons == 1
\* most `owner/` segments in front of the repository name of a generated URI
MaxPathDirs == 1

---------------------------------------------------------------------------
(* Python values and string primitives *)

\* Python's None (a value no string equals)
None == <<"<None>">>
EmptyStr == <<>>

\* truthiness of an Optional[str]: None and "" are falsy
Truthy(s) == s # None /\ s # EmptyStr

\* str.lower() on the characters the model uses
LowerChar(c) ==
    CASE c = "S" -> "s"
      [] c = "H" -> "h"
      [] c = "T" -> "t"
      [] c = "P" -> "p"
      [] c = "G" -> "g"
      [] c = "I" -> "i"
      [] OTHER -> c

LowerStr(s) == [i \in 1..Len(s) |-> LowerChar(s[i])]

StartsWith(s, p) == Len(s) >= Len(p) /\ SubSeq(s, 1, Len(p)) = p

EndsWith(s, p) == Len(s) >= Len(p) /\ SubSeq(s, Len(s) - Len(p) + 1, Len(s)) = p

Contains(s, p) ==
    \E i \in 1..(Len(s) + 1) : i + Len(p) - 1 <= Len(s) /\ SubSeq(s, i, i + Len(p) - 1) = p

\* s[n:]
SliceFrom(s, n) == SubSeq(s, n + 1, Len(s))

\* str.split(sep) for a one-character separator: always at least one part
RECURSIVE Split(_, _)
Split(s, sep) ==
    IF \A i \in 1..Len(s) : s[i] # sep
    THEN <<s>>
    ELSE LET k == CHOOSE i \in 1..Len(s) :
                      s[i] = sep /\ \A j \in 1..(i - 1) : s[j] # sep
         IN <<SubSeq(s, 1, k - 1)>> \o Split(SubSeq(s, k + 1, Len(s)), sep)

\* sep.join(parts)
RECURSIVE Join(_, _)
Join(parts, sep) ==
    IF parts = <<>> THEN EmptyStr
    ELSE IF Len(parts) = 1 THEN parts[1]
    ELSE parts[1] \o sep \o Join(Tail(parts), sep)

\* string literals of the source
S_ssh == <<"s", "s", "h", ":", "/", "/">>
S_http == <<"h", "t", "t", "p", ":", "/", "/">>
S_https == <<"h", "t", "t", "p", "s", ":", "/", "/">>
S_git_at == <<"g", "i", "t", "@">>
S_dot_git == <<".", "g", "i", "t">>
S_colon == <<":">>
S_slash == <<"/">>
S_refs_remotes == <<"r", "e", "f", "s", "/", "r", "e", "m", "o", "t", "e", "s", "/">>

---------------------------------------------------------------------------
(* Git.get_url_from_remote_uri *)

\* re.search(r"^ssh://", uri, re.IGNORECASE)
MatchesSsh(u) == StartsWith(LowerStr(u), S_ssh)

\* re.search(r"^https?://", uri, re.IGNORECASE)
MatchesHttp(u) == StartsWith(LowerStr(u), S_http) \/ StartsWith(LowerStr(u), S_https)

\* re.search(r"git@", uri, re.IGNORECASE): anywhere in the string
MatchesGitAt(u) == Contains(LowerStr(u), S_git_at)

\* re.sub(r"\.git$", "", url, re.IGNORECASE): the fourth positional parameter
\* of re.sub is `count`, so re.IGNORECASE (= 2) is a count and no flag is
\* set: the match is case-sensitive.  The pattern is anchored at the end, so
\* at most one occurrence is replaced whatever the count.
strip_dot_git(url) ==
    IF EndsWith(url, S_dot_git) THEN SubSeq(url, 1, Len(url) - Len(S_dot_git)) ELSE url

\* host = ":".join(parts[:-1]) taking only the first segment instead
ScpHost_FirstSegment(parts) == parts[1]

\* host = ":".join(parts[:-1])
ScpHost(parts) == Join(SubSeq(parts, 1, Len(parts) - 1), S_colon)

\* path = parts[-1]
ScpPath(parts) == parts[Len(parts)]

\* the `git@` branch: parts = uri[4:].split(":"); "https://{}/{}".format(host, path)
ScpUrl(u) ==
    LET parts == Split(SliceFrom(u, 4), ":")
    IN S_https \o ScpHost(parts) \o S_slash \o ScpPath(parts)

\* `url` as it stands before `return strip_dot_git(url) if url else None`:
\* three independent `if` statements, each overwriting `url`
RuleUrl(u) ==
    LET afterSsh == IF MatchesSsh(u) THEN None ELSE None
        afterHttp == IF MatchesHttp(u) THEN u ELSE afterSsh
    IN IF MatchesGitAt(u) THEN ScpUrl(u) ELSE afterHttp

get_url_from_remote_uri(u) ==
    LET url == RuleUrl(u)
    IN IF Truthy(url) THEN strip_dot_git(url) ELSE None

---------------------------------------------------------------------------
(* Inputs of the normalisation check *)

S_SSH_upper == <<"S", "S", "H", ":", "/", "/">>
S_DOT_GIT_upper == <<".", "G", "I", "T">>

UriSchemes == {EmptyStr, S_ssh, S_SSH_upper, S_http, S_https}
UriUsers == {EmptyStr, S_git_at}

RECURSIVE UriHosts(_)
UriHosts(n) ==
    IF n = 0 THEN {<<"h">>}
    ELSE UriHosts(n - 1) \cup {h \o <<":", "2">> : h \in UriHosts(n - 1)}

RECURSIVE UriPaths(_)
UriPaths(n) ==
    IF n = 0 THEN {<<"p">>}
    ELSE UriPaths(n - 1) \cup {<<"o", "/">> \o p : p \in UriPaths(n - 1)}

UriSeparators == {S_colon, S_slash}
UriSuffixes == {EmptyStr, S_dot_git, S_DOT_GIT_upper, S_dot_git \o S_dot_git}

Uris ==
    {sc \o us \o h \o sep \o p \o sf :
        sc \in UriSchemes, us \in UriUsers, h \in UriHosts(MaxHostColons),
        sep \in UriSeparators, p \in UriPaths(MaxPathDirs), sf \in UriSuffixes}

---------------------------------------------------------------------------
(* posixpath primitives, as CPython implements them *)

Unset == <<"<unset>">>
Root == S_slash
S_git_entry == <<".", "g", "i", "t">>

LastIndexOf(s, c) ==
    IF \E i \in 1..Len(s) : s[i] = c
    THEN CHOOSE i \in 1..Len(s) : s[i] = c /\ \A j \in (i + 1)..Len(s) : s[j] # c
    ELSE 0

AllSlashes(s) == \A i \in 1..Len(s) : s[i] = "/"

\* head.rstrip("/")
RECURSIVE RStripSlash(_)
RStripSlash(s) ==
    IF s # EmptyStr /\ s[Len(s)] = "/" THEN RStripSlash(SubSeq(s, 1, Len(s) - 1)) ELSE s

\* os.path.dirname: everything up to the last slash, trailing slashes removed
\* unless the head is nothing but slashes (the root is its own parent)
dirname(p) ==
    LET head == SubSeq(p, 1, LastIndexOf(p, "/"))
    IN IF head # EmptyStr /\ ~AllSlashes(head) THEN RStripSlash(head) ELSE head

\* os.path.join(a, b) for a relative b
join(a, b) ==
    IF a = EmptyStr \/ a[Len(a)] = "/" THEN a \o b ELSE a \o S_slash \o b

---------------------------------------------------------------------------
(* The filesystem the plugin runs on *)

DirNames == {<<"a">>, <<"b">>}

\* every directory at most n levels below the root
RECURSIVE DirsTo(_)
DirsTo(n) ==
    IF n = 0 THEN {Root}
    ELSE DirsTo(n - 1) \cup {join(d, c) : d \in DirsTo(n - 1), c \in DirNames}

Dirs == DirsTo(MaxDepth)

\* the directory /a/a/.../a, MaxDepth levels deep
RECURSIVE DeepDir(_)
DeepDir(n) == IF n = 0 THEN Root ELSE join(DeepDir(n - 1), <<"a">>)

\* every directory holds one regular file, f
RegularFiles == {join(d, <<"f">>) : d \in Dirs}

\* the only symbolic link of the filesystem, when there is one
LinkPath == <<"/", "l">>
NoLink == <<"<nolink>">>
LinkLoop == <<"<loop>">>
Missing == <<"<missing>">>

UnderLink(p) == p = LinkPath \/ StartsWith(p, LinkPath \o S_slash)

\* os.path.realpath on an absolute, normalised path: symlinks are replaced
\* by their targets; a missing component or a symlink loop leaves the path
\* as it is
realpath(p) ==
    IF UnderLink(p) /\ linkTo \notin {NoLink, LinkLoop}
    THEN linkTo \o SliceFrom(p, Len(LinkPath))
    ELSE p

\* the object the kernel reaches for a path (stat follows symlinks), or
\* Missing (ENOENT, ELOOP)
OsResolve(p) ==
    IF UnderLink(p)
    THEN IF linkTo \in {NoLink, LinkLoop} THEN Missing
         ELSE linkTo \o SliceFrom(p, Len(LinkPath))
    ELSE p

isdir(p) ==
    \/ OsResolve(p) \in Dirs
    \/ gitKind = "dir" /\ OsResolve(p) = join(gitAt, S_git_entry)

isfile(p) ==
    \/ OsResolve(p) \in RegularFiles
    \/ gitKind = "file" /\ OsResolve(p) = join(gitAt, S_git_entry)

\* what the host editor can hand over: nothing, a folder, or a file's name
HostPaths ==
    {EmptyStr} \cup Dirs \cup {LinkPath} \cup RegularFiles \cup {join(LinkPath, <<"f">>)}

---------------------------------------------------------------------------
(* Git.__init__, create_git_object, Git.is_in_git_repo *)

\* Git.__init__: a file is replaced by the directory that holds it
GitRepoPath(p) == IF isfile(p) THEN dirname(p) ELSE p

\* create_git_object builds a handle even when the host supplies no path
HasGitObject_Always(p) == TRUE

\* create_git_object returns None when the host supplies no path
HasGitObject(p) == Truthy(p)

\* `if path: path = os.path.realpath(path)` left out
CanonicalStart_NoRealpath(p) == p

\* `if path: path = os.path.realpath(path)`
CanonicalStart(p) == IF Truthy(p) THEN realpath(p) ELSE p

\* the loop's exit test without the visited set
WalkStops_NoVisited(p, v) == ~Truthy(p)

\* `if not path or path in visited: break`
WalkStops(p, v) == ~Truthy(p) \/ p \in v

\* `os.path.isdir(path_test) or os.path.isfile(path_test)`
HasGitEntry(p) ==
    LET path_test == join(p, S_git_entry)
    IN isdir(path_test) \/ isfile(path_test)

---------------------------------------------------------------------------
(* Git.run and Git.get_remote_web_url *)

\* out.rstrip()
RECURSIVE RStrip(_)
RStrip(s) ==
    IF s # EmptyStr /\ s[Len(s)] \in {"\n", " "} THEN RStrip(SubSeq(s, 1, Len(s) - 1)) ELSE s

\* str.split(sep, maxsplit): at most maxsplit cuts, the rest left whole
RECURSIVE SplitMax(_, _, _)
SplitMax(s, sep, maxsplit) ==
    IF maxsplit = 0 \/ \A i \in 1..Len(s) : s[i] # sep
    THEN <<s>>
    ELSE LET k == CHOOSE i \in 1..Len(s) :
                      s[i] = sep /\ \A j \in 1..(i - 1) : s[j] # sep
         IN <<SubSeq(s, 1, k - 1)>> \o SplitMax(SubSeq(s, k + 1, Len(s)), sep, maxsplit - 1)

\* re.sub(r"^refs/remotes/", "", upstream)
StripRefsRemotes(upstream) ==
    IF StartsWith(upstream, S_refs_remotes)
    THEN SliceFrom(upstream, Len(S_refs_remotes))
    ELSE upstream

\* the remote name taken from the upstream ref without removing the prefix
RemoteFromUpstream_KeepPrefix(upstream) == SplitMax(upstream, "/", 2)[1]

\* remote = re.sub(r"^refs/remotes/", "", upstream).split("/", 2)[0]
RemoteFromUpstream(upstream) == SplitMax(StripRefsRemotes(upstream), "/", 2)[1]

\* how one call of Git.run can end:
\*   "ok"       exit code 0, the stripped stdout is returned
\*   "nonzero"  `if ret_code:` raises GitException
\*   "nospawn"  subprocess.Popen raises FileNotFoundError (no executable)
\*   "timeout"  process.communicate raises subprocess.TimeoutExpired
RunOutcomes == {"ok", "nonzero", "nospawn", "timeout"}

\* the exception Git.run leaves with
RunException(outcome) ==
    CASE outcome = "ok" -> "none"
      [] outcome = "nonzero" -> "GitException"
      [] outcome = "nospawn" -> "FileNotFoundError"
      [] outcome = "timeout" -> "TimeoutExpired"

\* `except GitException:` of get_remote_web_url
CaughtByResolver(exc) == exc = "GitException"

\* one Git.run call as the log keeps it; cwd is self.repo_path
Invocation(cmd, arg, outcome, raw) ==
    [cmd |-> cmd, arg |-> arg, cwd |-> repoPath, outcome |-> outcome,
     out |-> IF outcome = "ok" THEN RStrip(raw) ELSE EmptyStr]

\* a failed rev-parse followed by `remote get-url` all the same
AfterRevParse_Fallback(outcome) == "geturl"

\* where get_remote_web_url stands after `self.run("rev-parse", ...)`
AfterRevParse(outcome) == IF outcome = "ok" THEN "geturl" ELSE "done"

\* stdout of `git rev-parse --symbolic-full-name @{upstream}` on success
UpstreamOutputs ==
    { S_refs_remotes \o <<"o", "/", "m", "\n">>,
      S_refs_remotes \o <<"o", "/", "f", "/", "x", "\n">>,
      <<"r", "e", "f", "s", "/", "h", "e", "a", "d", "s", "/", "m", "\n">> }

\* stdout of `git remote get-url <remote>` on success
RemoteUris ==
    { S_https \o <<"h", "/", "p">> \o S_dot_git \o <<"\n">>,
      S_git_at \o <<"h", ":", "p">> \o S_dot_git \o <<"\n">>,
      S_ssh \o <<"h", "/", "p", "\n">>,
      <<"x", "\n">> }

\* the `remote` argument a caller of run can pass
RemoteArgs == {None, <<"o">>}

\* the local `remote` when `remote get-url` is run
RemoteInUse ==
    IF Truthy(remoteArg) THEN remoteArg ELSE RemoteFromUpstream(spawned[1].out)

---------------------------------------------------------------------------
(* The command: initial state and handlers *)

UrlOff == uri = EmptyStr /\ web = Unset /\ web2 = Unset /\ ustage = "off"

Init ==
    /\ gitKind \in {"none", "dir", "file"}
    /\ gitAt \in (IF gitKind = "none" THEN {Root} ELSE Dirs)
    /\ linkTo \in {NoLink, LinkLoop, DeepDir(MaxDepth)}
    /\ hostPath \in HostPaths
    /\ handler = "none"
    /\ pc = "idle"
    /\ path = EmptyStr
    /\ visited = {}
    /\ reexamined = FALSE
    /\ detected = "unset"
    /\ repoPath = None
    /\ remoteArg = None
    /\ spawned = <<>>
    /\ resolved = Unset
    /\ raised = "none"
    /\ opened = None
    /\ errorShown = FALSE
    /\ everSpawned = FALSE
    /\ everOpened = FALSE
    /\ UrlOff

Ready == pc \in {"idle", "done"}

\* what every handler call starts from
FreshCall ==
    /\ spawned' = <<>>
    /\ resolved' = Unset
    /\ raised' = "none"
    /\ opened' = None
    /\ errorShown' = FALSE
    /\ reexamined' = FALSE
    /\ visited' = {}

\* OpenGitRepoOnWebCommand.is_enabled, up to the first loop test of
\* is_in_git_repo(git.repo_path)
IsEnabledCall ==
    /\ Ready
    /\ handler' = "is_enabled"
    /\ FreshCall
    /\ remoteArg' = None
    /\ IF HasGitObject(hostPath)
       THEN /\ repoPath' = GitRepoPath(hostPath)
            /\ path' = CanonicalStart(GitRepoPath(hostPath))
            /\ detected' = "unset"
            /\ pc' = "walk"
       ELSE /\ repoPath' = None
            /\ path' = EmptyStr
            /\ detected' = FALSE
            /\ pc' = "done"
    /\ UNCHANGED <<gitAt, gitKind, linkTo, hostPath, everSpawned, everOpened>>
    /\ UNCHANGED urlVars

\* Git.is_in_git_repo(path) called directly (it is a static method), up to
\* the first loop test
DetectCall ==
    /\ Ready
    /\ handler' = "detect"
    /\ FreshCall
    /\ remoteArg' = None
    /\ repoPath' = None
    /\ path' = CanonicalStart(hostPath)
    /\ detected' = "unset"
    /\ pc' = "walk"
    /\ UNCHANGED <<gitAt, gitKind, linkTo, hostPath, everSpawned, everOpened>>
    /\ UNCHANGED urlVars

\* one iteration of the `while True:` loop of is_in_git_repo
WalkStep ==
    /\ pc = "walk"
    /\ IF WalkStops(path, visited)
       THEN /\ detected' = FALSE
            /\ pc' = "done"
            /\ UNCHANGED <<path, visited, reexamined>>
       ELSE /\ visited' = visited \cup {path}
            /\ reexamined' = (reexamined \/ path \in visited)
            /\ IF HasGitEntry(path)
               THEN /\ detected' = TRUE
                    /\ pc' = "done"
                    /\ path' = path
               ELSE /\ path' = dirname(path)
                    /\ UNCHANGED <<detected, pc>>
    /\ UNCHANGED <<gitAt, gitKind, linkTo, hostPath, handler, repoPath, remoteArg,
                   spawned, resolved, raised, opened, errorShown, everSpawned,
                   everOpened>>
    /\ UNCHANGED urlVars

\* OpenGitRepoOnWebCommand.run(remote), up to the first Git.run call of
\* get_remote_web_url
RunCall ==
    /\ Ready
    /\ handler' = "run"
    /\ FreshCall
    /\ path' = EmptyStr
    /\ detected' = "unset"
    /\ \E r \in RemoteArgs :
          /\ remoteArg' = r
          /\ IF HasGitObject(hostPath)
             THEN /\ repoPath' = GitRepoPath(hostPath)
                  /\ pc' = IF Truthy(r) THEN "geturl" ELSE "revparse"
             ELSE /\ repoPath' = None
                  /\ pc' = "done"
    /\ UNCHANGED <<gitAt, gitKind, linkTo, hostPath, everSpawned, everOpened>>
    /\ UNCHANGED urlVars

\* the rest of run() once get_remote_web_url has returned repo_url
FinishRun(repo_url) ==
    /\ resolved' = repo_url
    /\ raised' = "none"
    /\ IF Truthy(repo_url)
       THEN /\ opened' = repo_url
            /\ everOpened' = TRUE
            /\ errorShown' = FALSE
       ELSE /\ errorShown' = TRUE
            /\ UNCHANGED <<opened, everOpened>>

\* an exception get_remote_web_url does not catch leaves run() as well
Propagate(exc) ==
    /\ raised' = exc
    /\ UNCHANGED <<resolved, opened, everOpened, errorShown>>

\* self.run("rev-parse", "--symbolic-full-name", "@{upstream}") and what
\* follows it until the next Git.run call or the end of run()
RevParse ==
    /\ pc = "revparse"
    /\ \E outcome \in RunOutcomes, raw \in UpstreamOutputs :
          /\ spawned' = Append(spawned, Invocation("rev-parse", EmptyStr, outcome, raw))
          /\ everSpawned' = (everSpawned \/ outcome # "nospawn")
          /\ pc' = AfterRevParse(outcome)
          /\ IF AfterRevParse(outcome) = "geturl"
             THEN UNCHANGED <<resolved, raised, opened, everOpened, errorShown>>
             ELSE IF CaughtByResolver(RunException(outcome))
                  THEN FinishRun(None)
                  ELSE Propagate(RunException(outcome))
    /\ UNCHANGED <<gitAt, gitKind, linkTo, hostPath, handler, path, visited,
                   reexamined, detected, repoPath, remoteArg>>
    /\ UNCHANGED urlVars

\* self.run("remote", "get-url", remote), get_url_from_remote_uri and the
\* rest of run()
GetUrl ==
    /\ pc = "geturl"
    /\ \E outcome \in RunOutcomes, raw \in RemoteUris :
          LET inv == Invocation("remote get-url", RemoteInUse, outcome, raw)
          IN /\ spawned' = Append(spawned, inv)
             /\ everSpawned' = (everSpawned \/ outcome # "nospawn")
             /\ IF outcome = "ok"
                THEN FinishRun(get_url_from_remote_uri(inv.out))
                ELSE IF CaughtByResolver(RunException(outcome))
                     THEN FinishRun(None)
                     ELSE Propagate(RunException(outcome))
    /\ pc' = "done"
    /\ UNCHANGED <<gitAt, gitKind, linkTo, hostPath, handler, path, visited,
                   reexamined, detected, repoPath, remoteArg>>
    /\ UNCHANGED urlVars

Next == IsEnabledCall \/ DetectCall \/ WalkStep \/ RunCall \/ RevParse \/ GetUrl

Spec == Init /\ [][Next]_vars

\* is_in_git_repo is a synchronous loop: an iteration that can run, runs
FairSpec == Init /\ [][Next]_vars /\ WF_vars(WalkStep)

---------------------------------------------------------------------------
(* The normalisation check: get_url_from_remote_uri applied to a URI, and *)
(* then to its own result                                                 *)

CmdOff ==
    /\ gitKind = "none" /\ gitAt = Root /\ linkTo = NoLink /\ hostPath = EmptyStr
    /\ handler = "none" /\ pc = "idle" /\ path = EmptyStr /\ visited = {}
    /\ reexamined = FALSE /\ detected = "unset" /\ repoPath = None
    /\ remoteArg = None /\ spawned = <<>> /\ resolved = Unset /\ raised = "none"
    /\ opened = None /\ errorShown = FALSE /\ everSpawned = FALSE
    /\ everOpened = FALSE

UrlInit ==
    /\ CmdOff
    /\ uri \in Uris
    /\ web = Unset
    /\ web2 = Unset
    /\ ustage = "input"

Normalize ==
    /\ ustage = "input"
    /\ web' = get_url_from_remote_uri(uri)
    /\ ustage' = "once"
    /\ UNCHANGED <<uri, web2>>
    /\ UNCHANGED cmdVars

NormalizeAgain ==
    /\ ustage = "once"
    /\ web # None
    /\ web2' = get_url_from_remote_uri(web)
    /\ ustage' = "twice"
    /\ UNCHANGED <<uri, web>>
    /\ UNCHANGED cmdVars

UrlNext == Normalize \/ NormalizeAgain

UrlSpec == UrlInit /\ [][UrlNext]_vars

---------------------------------------------------------------------------
(* What the claims speak of, stated independently of the code's steps *)

Normalized == ustage \in {"once", "twice"}

IndexOfFirst(s, c) ==
    IF \E i \in 1..Len(s) : s[i] = c
    THEN CHOOSE i \in 1..Len(s) : s[i] = c /\ \A j \in 1..(i - 1) : s[j] # c
    ELSE Len(s) + 1

\* s without one trailing `.git`, lower case only
WithoutDotGit(s) ==
    IF EndsWith(s, S_dot_git) THEN SubSeq(s, 1, Len(s) - 4) ELSE s

\* s without one trailing `.git` in any mix of cases
WithoutDotGitAnyCase(s) ==
    IF EndsWith(LowerStr(s), S_dot_git) THEN SubSeq(s, 1, Len(s) - 4) ELSE s

\* `https://HOST/PATH` optionally followed by `.git`
IsHttpsForm(u) == StartsWith(u, S_https) /\ Contains(SliceFrom(u, Len(S_https)), S_slash)

\* `git@HOST:PATH` optionally followed by `.git`
IsScpForm(u) == StartsWith(u, S_git_at) /\ Contains(SliceFrom(u, Len(S_git_at)), S_colon)

\* HOST of an SCP-style URI: what stands between `git@` and the last colon
ScpFormHost(u) ==
    LET rest == SliceFrom(u, Len(S_git_at))
    IN SubSeq(rest, 1, LastIndexOf(rest, ":") - 1)

\* PATH of an SCP-style URI: what follows the last colon, less the `.git`
ScpFormPath(u) ==
    LET rest == SliceFrom(u, Len(S_git_at))
    IN WithoutDotGit(SubSeq(rest, LastIndexOf(rest, ":") + 1, Len(rest)))

NumColons(u) == Cardinality({i \in 1..Len(u) : u[i] = ":"})

\* q is p or a directory above p
IsSelfOrAncestor(q, p) ==
    \/ q = p
    \/ q = Root /\ StartsWith(p, Root)
    \/ StartsWith(p, q \o S_slash)

\* p, made canonical, is a directory with a `.git` directory or file, or
\* lies below one
InWorkTree(p) ==
    /\ Truthy(p)
    /\ gitKind \in {"dir", "file"}
    /\ IsSelfOrAncestor(gitAt, realpath(p))

\* the argument of the is_in_git_repo call in progress (None when there is none)
WalkInput ==
    IF handler = "detect" THEN hostPath
    ELSE IF handler = "is_enabled" THEN repoPath
    ELSE None

\* the remote name an upstream ref names: `refs/remotes/` removed from the
\* front, then everything before the first slash
UpstreamRemoteName(ref) ==
    LET t == IF StartsWith(ref, S_refs_remotes)
             THEN SubSeq(ref, Len(S_refs_remotes) + 1, Len(ref))
             ELSE ref
    IN SubSeq(t, 1, IndexOfFirst(t, "/") - 1)

SomeRunFailed == \E i \in 1..Len(spawned) : spawned[i].outcome # "ok"

RevParseFailed ==
    /\ handler = "run"
    /\ ~Truthy(remoteArg)
    /\ Len(spawned) >= 1
    /\ spawned[1].outcome # "ok"

\* the host's path is in no working tree, or the host has no path
OutsideWorkTree == ~InWorkTree(hostPath)

---------------------------------------------------------------------------
(* The claims *)

\* C1: whenever a Git.run call of get_remote_web_url fails (executable
\* missing, non-zero exit, timeout), with or without an explicit remote, the
\* call returns None and no exception reaches the caller.
C1_EveryFailureBecomesAbsent ==
    (handler = "run" /\ pc = "done" /\ SomeRunFailed)
        => (resolved = None /\ raised = "none")

\* C2: get_url_from_remote_uri returns None for every URI that starts with
\* `ssh://` in any case, whatever follows the prefix.
C2_SshYieldsNone ==
    (Normalized /\ MatchesSsh(uri)) => web = None

\* C3: for every URI `https://HOST/PATH` optionally followed by `.git`,
\* get_url_from_remote_uri returns exactly `https://HOST/PATH`, and applied
\* to that result it returns the same result.
C3_HttpsAsIsAndIdempotent ==
    (Normalized /\ IsHttpsForm(uri))
        => /\ web = WithoutDotGit(uri)
           /\ (ustage = "twice" => web2 = web)

\* C4: for every URI `git@HOST:PATH` optionally followed by `.git`,
\* get_url_from_remote_uri returns `https://HOST/PATH`, HOST being all that
\* precedes the last colon and PATH the segment after the last colon.
C4_ScpBecomesHttps ==
    (Normalized /\ IsScpForm(uri))
        => web = S_https \o ScpFormHost(uri) \o S_slash \o ScpFormPath(uri)

\* C4 witness: an SCP-style URI with a colon inside the host and a `.git`
\* suffix has been normalised.
C4_Witness ==
    /\ ustage = "once"
    /\ IsScpForm(uri)
    /\ NumColons(uri) >= 2
    /\ EndsWith(uri, S_dot_git)
    /\ web = S_https \o <<"h", ":", "2", "/", "o", "/", "p">>

\* C5: whichever rule produced the URL, the value returned is that URL
\* without its trailing `.git`, the suffix matched in any mix of cases.
C5_SuffixStrippedAnyCase ==
    (Normalized /\ Truthy(RuleUrl(uri)))
        => web = WithoutDotGitAnyCase(RuleUrl(uri))

\* C6: when get_remote_web_url is called without a remote and rev-parse
\* fails, no `remote get-url` is invoked in that request, no remote name is
\* substituted and nothing is opened; when it fails by exiting non-zero (no
\* upstream configured, detached HEAD) the call returns None.
C6_NoUpstreamNoFallback ==
    RevParseFailed
        => /\ Len(spawned) = 1
           /\ spawned[1].cmd = "rev-parse"
           /\ pc = "done"
           /\ opened = None
           /\ (spawned[1].outcome = "nonzero"
                  => resolved = None /\ raised = "none" /\ errorShown)

\* C6 witness: rev-parse has exited non-zero in a request without a remote.
C6_Witness ==
    /\ RevParseFailed
    /\ spawned[1].outcome = "nonzero"
    /\ pc = "done"
    /\ resolved = None

\* C7: is_in_git_repo(path) returns true exactly when the canonical form of
\* path, or a directory above it, has a `.git` directory or regular file;
\* false for the empty path.
C7_DetectionIffMarkerAbove ==
    (pc = "done" /\ WalkInput # None)
        => (detected = TRUE <=> InWorkTree(WalkInput))

\* C7 witness: a path that is a symlink into a working tree, whose `.git`
\* entry is in a directory above the link's target, was found to be inside.
C7_Witness ==
    /\ pc = "done"
    /\ handler = "detect"
    /\ hostPath = LinkPath
    /\ linkTo = DeepDir(MaxDepth)
    /\ gitAt = dirname(linkTo)
    /\ gitKind = "file"
    /\ detected = TRUE

\* C8: is_in_git_repo terminates for every input, the root (its own parent)
\* included, and examines no directory twice.
C8_WalkTerminates ==
    /\ [](~reexamined)
    /\ ((pc = "walk") ~> (pc = "done"))

\* C8 witness: the walk came back to the root, found it in the visited set
\* and ended with false.
C8_Witness ==
    /\ pc = "done"
    /\ handler \in {"detect", "is_enabled"}
    /\ path = Root
    /\ Root \in visited
    /\ detected = FALSE

\* C9 as stated: when the host's path is outside any working tree (or there
\* is no path), is_enabled is false and, whatever is_enabled and run calls
\* are made, no git process is spawned and no URL is opened.
C9_OutsideNeverResolved ==
    OutsideWorkTree
        => /\ ((handler = "is_enabled" /\ pc = "done") => detected = FALSE)
           /\ ~everSpawned
           /\ ~everOpened

\* C9 as amended: when the host's path is outside any working tree (or there
\* is no path), is_enabled is false; is_enabled and is_in_git_repo spawn no
\* process and open no URL; and when there is no path, run does neither.
C9_OutsideIsDisabled ==
    /\ OutsideWorkTree
          => ((handler = "is_enabled" /\ pc = "done") => detected = FALSE)
    /\ handler \in {"is_enabled", "detect"}
          => (spawned = <<>> /\ opened = None /\ ~errorShown)
    /\ ~Truthy(hostPath) => (~everSpawned /\ ~everOpened)

\* C9 witness: is_enabled has answered false for a path outside any working
\* tree, after a run call on that path had spawned git.
C9_Witness ==
    /\ Truthy(hostPath)
    /\ OutsideWorkTree
    /\ handler = "is_enabled"
    /\ pc = "done"
    /\ detected = FALSE
    /\ everSpawned

\* C10: one get_remote_web_url request makes at most two Git.run calls, one
\* after the other: with a remote, only `remote get-url <remote>`; without,
\* rev-parse first and, only once it has succeeded, `remote get-url <name>`
\* with <name> the rev-parse output less `refs/remotes/`, cut before its
\* first slash; every call runs in the handle's repo_path.
C10_AtMostTwoSequentialRuns ==
    handler = "run"
        => /\ Len(spawned) <= 2
           /\ \A i \in 1..Len(spawned) : spawned[i].cwd = GitRepoPath(hostPath)
           /\ Truthy(remoteArg)
                 => /\ Len(spawned) <= 1
                    /\ \A i \in 1..Len(spawned) :
                          spawned[i].cmd = "remote get-url" /\ spawned[i].arg = remoteArg
           /\ ~Truthy(remoteArg)
                 => /\ Len(spawned) >= 1 => spawned[1].cmd = "rev-parse"
                    /\ pc = "geturl" => (Len(spawned) = 1 /\ spawned[1].outcome = "ok")
                    /\ Len(spawned) = 2
                          => /\ spawned[1].outcome = "ok"
                             /\ spawned[2].cmd = "remote get-url"
                             /\ spawned[2].arg = UpstreamRemoteName(spawned[1].out)

\* C10 witness: both commands have run, the second for the remote of an
\* upstream whose branch name holds a slash.
C10_Witness ==
    /\ handler = "run"
    /\ Len(spawned) = 2
    /\ spawned[1].out = S_refs_remotes \o <<"o", "/", "f", "/", "x">>
    /\ spawned[2].arg = <<"o">>
    /\ spawned[2].cwd = dirname(hostPath)
    /\ opened = S_https \o <<"h", "/", "p">>

===========================================================================
